---- MODULE Spec2Model ----
(***************************************************************************)
(* A model of EnhancedKnowledgeAgent (src/knowledge_agent.py): the chunker, *)
(* the document store and the similarity index, retrieval, the conversation *)
(* context builder, the intent router, the time-window extractor and chat.  *)
(*                                                                          *)
(* Strings are sequences of one-character strings.  Each group of           *)
(* operations has its own specification over the shared variables; the      *)
(* variables a specification does not use stay at their initial value.      *)
(***************************************************************************)
EXTENDS Integers, Sequences, FiniteSets, TLC

VARIABLES
    text,        \* chunk_text: the argument text
    chunk_size,  \* chunk_text: the argument chunk_size
    overlap,     \* chunk_text: the argument overlap
    chunks,      \* chunk_text: the returned list of chunks
    pc,          \* position of the call in flight: "call" before, "done" after
    rows,                       \* the rows of table documents, in id order
    vector_index,               \* self.vector_index: None or an IndexFlatIP
    document_chunks,            \* self.document_chunks: list of (id, content)
    recent_knowledge_searches,  \* self.recent_knowledge_searches
    embedding,                  \* the embedding model: text -> vector
    last,                       \* outcome of the last completed agent call
    reply,          \* what the HTTP call of call_ollama meets
    chat_history,   \* build_conversation_context: the argument chat_history
    max_exchanges,  \* build_conversation_context: the argument max_exchanges
    ret,            \* what the function called returned, or that it raised
    calendar_service,  \* self.calendar_service: None or the connected service
    gmail_service,     \* self.gmail_service: None or the connected service
    trace,             \* the collaborator calls of the chat call, in order
    searched           \* history: every search that produced a result, oldest
                       \* first, since the agent was constructed

chunkVars == <<text, chunk_size, overlap, chunks, pc>>

agentVars == <<rows, vector_index, document_chunks, recent_knowledge_searches,
               embedding, last>>

callVars == <<reply, chat_history, max_exchanges, ret>>

chatVars == <<calendar_service, gmail_service, trace, searched>>

vars == <<text, chunk_size, overlap, chunks, pc, rows, vector_index,
          document_chunks, recent_knowledge_searches, embedding, last,
          reply, chat_history, max_exchanges, ret,
          calendar_service, gmail_service, trace, searched>>

(***************************************************************************)
(* Bounds of the model.                                                     *)
(***************************************************************************)
MaxTextLen == 12
MaxChunkSize == 3

(***************************************************************************)
(* The value of each group of variables while another specification runs.   *)
(***************************************************************************)
\* self.vector_index before any index was built
None == [kind |-> "None"]

NoCall == [op |-> "none"]

ChunkIdle ==
    /\ text = <<>>
    /\ chunk_size = 1
    /\ overlap = 0
    /\ chunks = <<>>

AgentIdle ==
    /\ rows = <<>>
    /\ vector_index = None
    /\ document_chunks = <<>>
    /\ recent_knowledge_searches = <<>>
    /\ embedding = <<>>
    /\ last = NoCall

NoReturn == [raised |-> FALSE, value |-> <<>>]

CallIdle ==
    /\ reply = [kind |-> "none"]
    /\ chat_history = <<>>
    /\ max_exchanges = 0
    /\ ret = NoReturn

ChatIdle ==
    /\ calendar_service = None
    /\ gmail_service = None
    /\ trace = <<>>
    /\ searched = <<>>

(***************************************************************************)
(* Generic helpers.                                                         *)
(***************************************************************************)
Min(a, b) == IF a <= b THEN a ELSE b

Max(a, b) == IF a >= b THEN a ELSE b

\* ceil(a / b) for b > 0 and any integer a
CeilDiv(a, b) == -((-a) \div b)

\* all sequences over S of length at most n
SeqsUpTo(S, n) == UNION {[1..k -> S] : k \in 0..n}

(***************************************************************************)
(* str.split() and ' '.join().                                              *)
(***************************************************************************)
Whitespace == {" ", "\n"}

Chars == {" ", "a"}

\* s[i:] for a 0-based i, as Python slices
From(s, i) == SubSeq(s, i + 1, Len(s))

\* s[i:j] for 0-based i <= j, clamped to the sequence as Python slices are
Slice(s, i, j) == SubSeq(s, i + 1, Min(j, Len(s)))

\* whether a token of s starts at position i
TokenStart(s, i) == s[i] \notin Whitespace /\ (i = 1 \/ s[i - 1] \in Whitespace)

\* the token of s that starts at position i: the run of non-whitespace
\* characters up to the next whitespace or the end
TokenAt(s, i) ==
    LET e == CHOOSE j \in i..Len(s) :
                 /\ j = Len(s) \/ s[j + 1] \in Whitespace
                 /\ \A m \in i..j : s[m] \notin Whitespace
    IN  SubSeq(s, i, e)

RECURSIVE TokensIn(_, _, _)
\* the tokens of s that start at the positions lo..hi, in order
TokensIn(s, lo, hi) ==
    IF lo > hi THEN <<>>
    ELSE IF lo = hi
    THEN IF TokenStart(s, lo) THEN <<TokenAt(s, lo)>> ELSE <<>>
    ELSE LET mid == (lo + hi) \div 2
         IN  TokensIn(s, lo, mid) \o TokensIn(s, mid + 1, hi)

\* text.split(): the maximal runs of non-whitespace characters
Split(s) == TokensIn(s, 1, Len(s))

RECURSIVE JoinRange(_, _, _)
\* ' '.join(words[lo..hi])
JoinRange(words, lo, hi) ==
    IF lo > hi THEN <<>>
    ELSE IF lo = hi THEN words[lo]
    ELSE LET mid == (lo + hi) \div 2
         IN  JoinRange(words, lo, mid) \o <<" ">> \o JoinRange(words, mid + 1, hi)

\* ' '.join(words)
Join(words) == JoinRange(words, 1, Len(words))

(***************************************************************************)
(* chunk_text                                                               *)
(***************************************************************************)
\* a step that forgets the overlap
StepNoOverlap(size, over) == size

\* the step of range(0, len(words), chunk_size - overlap)
Step(size, over) == size - over

\* a break test that misses the window ending exactly at the last token
LastWindowStrict(i, size, n) == i + size > n

\* the break test after a window was appended
LastWindow(i, size, n) == i + size >= n

RECURSIVE ChunkLoop(_, _, _, _)
\* the iterations of the for loop from loop index i on
ChunkLoop(words, size, over, i) ==
    IF i >= Len(words)
    THEN <<>>
    ELSE LET chunk == Join(Slice(words, i, i + size))
         IN  IF LastWindow(i, size, Len(words))
             THEN <<chunk>>
             ELSE <<chunk>> \o ChunkLoop(words, size, over, i + Step(size, over))

chunk_text(t, size, over) == ChunkLoop(Split(t), size, over, 0)

(***************************************************************************)
(* Specification of the chunker: one call of chunk_text on any text of at   *)
(* most MaxTextLen characters and any 0 <= overlap < chunk_size.            *)
(***************************************************************************)
ChunkInit ==
    /\ text \in SeqsUpTo(Chars, MaxTextLen)
    /\ chunk_size \in 1..MaxChunkSize
    /\ overlap \in 0..(chunk_size - 1)
    /\ chunks = <<>>
    /\ pc = "call"
    /\ AgentIdle
    /\ CallIdle
    /\ ChatIdle

CallChunkText ==
    /\ pc = "call"
    /\ chunks' = chunk_text(text, chunk_size, overlap)
    /\ pc' = "done"
    /\ UNCHANGED <<text, chunk_size, overlap>>
    /\ UNCHANGED <<agentVars, callVars, chatVars>>

ChunkNext == CallChunkText

ChunkSpec == ChunkInit /\ [][ChunkNext]_vars

\* the number of tokens of the argument
W == Len(Split(text))

RECURSIVE UniqueSpans(_, _, _)
\* the first chunk's tokens, then every later chunk's tokens after its first
\* `over` ones, in chunk order
UniqueSpans(cs, over, k) ==
    IF k > Len(cs) THEN <<>>
    ELSE (IF k = 1 THEN Split(cs[k]) ELSE From(Split(cs[k]), over))
         \o UniqueSpans(cs, over, k + 1)

\* C1 (as stated): chunk_text returns ceil((W - O) / (S - O)) chunks when
\* W > 0 and no chunk when W = 0.
C1_CountAsStated ==
    pc = "done" =>
        Len(chunks) = IF W = 0 THEN 0
                      ELSE CeilDiv(W - overlap, chunk_size - overlap)

\* C1 (amended): chunk_text returns max(1, ceil((W - O) / (S - O))) chunks
\* when W > 0 and no chunk when W = 0: a text of at most O tokens is one chunk.
C1_Count ==
    pc = "done" =>
        Len(chunks) = IF W = 0 THEN 0
                      ELSE Max(1, CeilDiv(W - overlap, chunk_size - overlap))

C1_Witness ==
    /\ pc = "done"
    /\ W > chunk_size
    /\ overlap > 0
    /\ Len(chunks) >= 3

\* C2: the first chunk in full followed by the tokens of every later chunk
\* after its first O tokens is the token sequence of the text.
C2_Reconstruct ==
    pc = "done" => UniqueSpans(chunks, overlap, 1) = Split(text)

C2_Witness ==
    /\ pc = "done"
    /\ overlap > 0
    /\ Len(chunks) >= 3
    /\ Len(Split(chunks[Len(chunks)])) < chunk_size
    /\ \E i, j \in 1..W : Split(text)[i] # Split(text)[j]

\* C3: a text without tokens gives no chunk; a text of 1..S tokens gives
\* exactly one chunk, the tokens of the text joined in order.
C3_Short ==
    pc = "done" =>
        /\ W = 0 => chunks = <<>>
        /\ (1 <= W /\ W <= chunk_size) => chunks = <<Join(Split(text))>>

C3_Witness ==
    /\ pc = "done"
    /\ 1 <= W
    /\ W <= overlap
    /\ Len(chunks) = 1
    /\ text # chunks[1]

(***************************************************************************)
(* The document store, the similarity index and retrieval.                  *)
(***************************************************************************)
MaxRows == 2
MaxSearches == 1

\* add_document: chunk_text(content, chunk_size=500, overlap=50)
DefaultChunkSize == 500

DefaultOverlap == 50

\* search_knowledge_base keeps the last 5 searches
RecentKept == 5

Titles == {"Leave Policy"}

Sources == {"manual"}

Contents == {<<>>, <<"a">>, <<"b">>}

Queries == {<<"a">>}

\* the values of top_k: one, and the default 3 that chat passes
TopKs == {1, 3}

\* the texts the embedding model is asked to encode: chunk contents, queries
EmbedTexts == {<<"a">>, <<"b">>}

\* a vector is a direction and a length; two different directions have
\* cosine 0.8, and inner products are counted in tenths
Directions == {"x", "y"}

Cos(d, e) == IF d = e THEN 10 ELSE 8

\* the vectors the embedding model may answer with: of length 1, or longer
Vectors == {[dir |-> "x", len |-> 1], [dir |-> "y", len |-> 1],
            [dir |-> "y", len |-> 2]}

\* which call of a handler raises: no call, the first INSERT, the commit,
\* the first SELECT, or the first call of the embedding model
Faults == {"none", "insert", "commit", "select", "encode"}

\* self.embedding_model.encode(texts)
Encode(texts) == [i \in 1..Len(texts) |-> embedding[texts[i]]]

\* embeddings.astype('float32'): a new array with the same values
AsType(embeddings) == embeddings

\* faiss.normalize_L2(x): every vector of x scaled to length 1, in place in x
NormalizeL2(x) == [i \in 1..Len(x) |-> [x[i] EXCEPT !.len = 1]]

\* faiss.IndexFlatIP(dimension) after add(vectors)
IndexFlatIP(vectors) == [kind |-> "IndexFlatIP", vectors |-> vectors]

\* the inner product IndexFlatIP scores with
Dot(u, v) == u.len * v.len * Cos(u.dir, v.dir)

\* the score faiss gives a missing neighbour (label -1): the lowest float,
\* below every inner product of the model
LowestScore == -(10 ^ 6)

\* seq[idx] as Python indexes: a negative idx counts from the end
PyIndex(seq, idx) == IF idx >= 0 THEN seq[idx + 1] ELSE seq[Len(seq) + idx + 1]

\* seq[-n:]
\* a list cut to its first n entries
FirstN(seq, n) == SubSeq(seq, 1, Min(n, Len(seq)))

LastN(seq, n) == SubSeq(seq, Max(1, Len(seq) - n + 1), Len(seq))

\* a completed call: which handler, whether it raised, which collaborator
\* failed in it, for a search what it returned and which collaborators it
\* called, and for an add_document that failed in its writes the number of
\* INSERTs executed before
Outcome(op, raised) ==
    [op |-> op, raised |-> raised, failed |-> "none", out |-> "", results |-> <<>>,
     query |-> <<>>, top_k |-> 0, encodeCalls |-> 0, storeCalls |-> 0,
     inserted |-> 0]

\* the outcome of a call of op that ended or not with the exception of the
\* statement named by fault
Ended(op, raised, fault) ==
    IF raised THEN [Outcome(op, TRUE) EXCEPT !.failed = fault]
    ELSE Outcome(op, FALSE)

(***************************************************************************)
(* build_vector_index                                                       *)
(***************************************************************************)
\* a rebuild that only adds the newest row of the table to the list and the
\* index it finds
BuildVectorIndexNewestOnly(table, index, dchunks, fault) ==
    IF fault \in {"select", "encode"}
    THEN [index |-> index, chunks |-> dchunks, raised |-> TRUE]
    ELSE IF table = <<>>
    THEN [index |-> index, chunks |-> dchunks, raised |-> FALSE]
    ELSE LET newest == table[Len(table)]
             vectors == IF index = None THEN <<>> ELSE index.vectors
         IN  [index |-> IndexFlatIP(Append(vectors, embedding[newest.content])),
              chunks |-> Append(dchunks, <<newest.id, newest.content>>),
              raised |-> FALSE]

\* the outcome of build_vector_index on table: the new index and parallel
\* list, and whether the call raised
BuildVectorIndex(table, index, dchunks, fault) ==
    IF fault = "select"
    THEN [index |-> index, chunks |-> dchunks, raised |-> TRUE]
    ELSE IF table = <<>>
    THEN [index |-> index, chunks |-> dchunks, raised |-> FALSE]
    ELSE LET newChunks == [i \in 1..Len(table) |-> <<table[i].id, table[i].content>>]
             texts == [i \in 1..Len(table) |-> table[i].content]
         IN  IF fault = "encode"
             THEN [index |-> index, chunks |-> newChunks, raised |-> TRUE]
             ELSE LET embeddings == Encode(texts)
                      \* normalize_L2 works on the copy astype returns, which
                      \* is dropped; the array added is another copy
                      normalized == NormalizeL2(AsType(embeddings))
                  IN  [index |-> IndexFlatIP(AsType(embeddings)), chunks |-> newChunks,
                       raised |-> FALSE]

(***************************************************************************)
(* search_knowledge_base                                                    *)
(***************************************************************************)
\* a guard that forgets the absent index
IsEmptyListOnly(index, dchunks) == Len(dchunks) = 0

\* the guard of search_knowledge_base
IsEmpty(index, dchunks) == index = None \/ Len(dchunks) = 0

\* the test a hit must pass to be resolved through document_chunks
HitInRange(idx, n) == idx < n

Perms(n) == {p \in [1..n -> 1..n] : \A i, j \in 1..n : p[i] = p[j] => i = j}

\* the orders in which IndexFlatIP may rank its vectors for query vector q:
\* descending score, equal scores in any order
Ranked(index, q) ==
    {p \in Perms(Len(index.vectors)) :
        \A i \in 1..(Len(index.vectors) - 1) :
            Dot(index.vectors[p[i]], q) >= Dot(index.vectors[p[i + 1]], q)}

\* vector_index.search(q, top_k) under ranking p: top_k (score, label) pairs,
\* the labels 0-based, padded with label -1 when the index is smaller
IndexSearch(index, q, top_k, p) ==
    [i \in 1..top_k |->
        IF i <= Len(index.vectors)
        THEN [score |-> Dot(index.vectors[p[i]], q), idx |-> p[i] - 1]
        ELSE [score |-> LowestScore, idx |-> -1]]

\* SELECT title, source FROM documents WHERE id = ?
SelectById(table, id) == {table[i] : i \in {j \in 1..Len(table) : table[j].id = id}}

RECURSIVE ResolveHits(_, _, _, _)
\* the loop over the hits from hit i on: the results appended (doc_id is not
\* part of the result dict; it records which chunk the result came from)
ResolveHits(hits, i, dchunks, table) ==
    IF i > Len(hits) THEN <<>>
    ELSE LET rest == ResolveHits(hits, i + 1, dchunks, table)
         IN  IF HitInRange(hits[i].idx, Len(dchunks))
             THEN LET entry == PyIndex(dchunks, hits[i].idx)
                      metadata == SelectById(table, entry[1])
                  IN  IF metadata # {}
                      THEN LET m == CHOOSE r \in metadata : TRUE
                           IN  <<[content |-> entry[2], title |-> m.title,
                                  source |-> m.source,
                                  relevance_score |-> hits[i].score,
                                  doc_id |-> entry[1]]>> \o rest
                      ELSE rest
             ELSE rest

\* the number of hits that reach the SELECT
Selects(hits, dchunks) ==
    Cardinality({i \in 1..Len(hits) : HitInRange(hits[i].idx, Len(dchunks))})

\* the rankings the index may answer with (none is asked of an absent index)
RankChoices(index, query) ==
    IF index = None \/ query \notin DOMAIN embedding THEN {<<>>}
    ELSE Ranked(index, embedding[query])

\* the outcome of search_knowledge_base(query, top_k) under ranking p
SearchOutcome(table, index, dchunks, query, top_k, fault, p) ==
    LET base == [Outcome("search", FALSE) EXCEPT !.query = query, !.top_k = top_k]
    IN  IF IsEmpty(index, dchunks)
        THEN [base EXCEPT !.out = "Knowledge base is empty"]
        ELSE IF fault = "encode" \/ index = None
        THEN [base EXCEPT !.raised = TRUE,
                          !.failed = IF fault = "encode" THEN "encode" ELSE "index",
                          !.encodeCalls = 1]
        ELSE LET query_embedding == Encode(<<query>>)
                 normalized == NormalizeL2(AsType(query_embedding))
                 hits == IndexSearch(index, AsType(query_embedding)[1], top_k, p)
                 results == ResolveHits(hits, 1, dchunks, table)
             IN  IF fault = "select" /\ Selects(hits, dchunks) > 0
                 THEN [base EXCEPT !.raised = TRUE, !.failed = "select",
                                   !.encodeCalls = 1, !.storeCalls = 1]
                 ELSE [base EXCEPT !.encodeCalls = 1,
                                   !.storeCalls = Selects(hits, dchunks),
                                   !.results = results,
                                   !.out = IF results # <<>>
                                           THEN "Found relevant information"
                                           ELSE "No relevant information found"]

(***************************************************************************)
(* The handlers of the agent.                                               *)
(***************************************************************************)
AgentInit ==
    /\ rows = <<>>
    /\ vector_index = None
    /\ document_chunks = <<>>
    /\ recent_knowledge_searches = <<>>
    /\ embedding \in [EmbedTexts -> Vectors]
    /\ last = Outcome("init", FALSE)
    /\ pc = "idle"
    /\ ChunkIdle
    /\ CallIdle
    /\ ChatIdle

\* n one-letter words separated by single spaces
Words(n) == [i \in 1..(2 * n - 1) |-> IF i % 2 = 1 THEN "a" ELSE " "]

\* documents of no chunk, of one chunk and of two chunks (one word more than
\* a chunk holds)
StoreContents == {<<>>, <<"a">>, Words(DefaultChunkSize + 1)}

\* self.chunk_text(content) for every document content of the model
Chunked ==
    [c \in Contents \cup StoreContents |-> chunk_text(c, DefaultChunkSize, DefaultOverlap)]

\* the rows of a document, were chunk_index counted from 1
NewRowsFromOne(table, title, content, source) ==
    LET cs == Chunked[content]
    IN  [i \in 1..Len(cs) |->
            [id |-> Len(table) + i, title |-> title, content |-> cs[i],
             source |-> source, chunk_id |-> i]]

\* the rows add_document inserts for a document: one per chunk, the ids
\* the next AUTOINCREMENT values, chunk_id the position of the chunk
NewRows(table, title, content, source) ==
    LET cs == Chunked[content]
    IN  [i \in 1..Len(cs) |->
            [id |-> Len(table) + i, title |-> title, content |-> cs[i],
             source |-> source, chunk_id |-> i - 1]]

\* whether the writes of add_document end with an exception: the k-th INSERT
\* or the commit raises
WritesFail(newRows, fault) == (fault = "insert" /\ newRows # <<>>) \/ fault = "commit"

\* the INSERTs executed before the exception, or all of them
Inserted(newRows, fault, k) ==
    IF fault = "insert" /\ newRows # <<>> THEN SubSeq(newRows, 1, k - 1) ELSE newRows

\* the table, were every INSERT durable on its own
StoreEachInsert(table, newRows, fault, k) == table \o Inserted(newRows, fault, k)

\* the table after the writes of add_document: the INSERTs run in one
\* transaction of the connection; conn.commit() makes them durable together,
\* and an exception before the end of commit leaves the connection with its
\* transaction open, which sqlite rolls back when the connection goes
StoreAfterWrites(table, newRows, fault, k) ==
    IF WritesFail(newRows, fault) THEN table ELSE table \o Inserted(newRows, fault, k)

\* the positions at which an INSERT of newRows can raise under fault
FailingInserts(newRows, fault) ==
    IF fault = "insert" /\ newRows # <<>> THEN 1..Len(newRows) ELSE {1}

\* add_document(title, content, source) while the table stays within maxRows
\* rows: the chunk rows are written and committed, then the index is rebuilt
\* from the whole table; under fault the k-th INSERT, the commit, the SELECT
\* or the encode call raises
AddDocumentCall(title, content, source, fault, k, maxRows) ==
    LET newRows == NewRows(rows, title, content, source)
        stored == StoreAfterWrites(rows, newRows, fault, k)
        inserted == Len(Inserted(newRows, fault, k))
    IN  /\ Len(rows) + Len(newRows) <= maxRows
        /\ rows' = stored
        /\ IF WritesFail(newRows, fault)
           THEN /\ last' = [Ended("add_document", TRUE, fault) EXCEPT
                                !.inserted = inserted]
                /\ UNCHANGED <<vector_index, document_chunks>>
           ELSE LET b == BuildVectorIndex(stored, vector_index, document_chunks, fault)
                IN  /\ vector_index' = b.index
                    /\ document_chunks' = b.chunks
                    /\ last' = Ended("add_document", b.raised, fault)
        /\ UNCHANGED <<recent_knowledge_searches, embedding>>
        /\ UNCHANGED <<chunkVars, callVars, chatVars>>

\* add_document for every content of contentSet and every fault
AddDocument(contentSet, maxRows) ==
    \E title \in Titles, content \in contentSet, source \in Sources, fault \in Faults :
        \E k \in FailingInserts(NewRows(rows, title, content, source), fault) :
            AddDocumentCall(title, content, source, fault, k, maxRows)

add_document == AddDocument(Contents, MaxRows)

\* build_vector_index() called on its own
build_vector_index ==
    \E fault \in {"none", "select", "encode"} :
        LET b == BuildVectorIndex(rows, vector_index, document_chunks, fault)
        IN  /\ vector_index' = b.index
            /\ document_chunks' = b.chunks
            /\ last' = Ended("build_vector_index", b.raised, fault)
            /\ UNCHANGED <<rows, recent_knowledge_searches, embedding>>
            /\ UNCHANGED <<chunkVars, callVars, chatVars>>

\* a new agent over the same database file: __init__ resets the index state
\* and load_or_create_vector_index swallows what build_vector_index raises
load_or_create_vector_index ==
    \E fault \in {"none", "select", "encode"} :
        LET b == BuildVectorIndex(rows, None, <<>>, fault)
        IN  /\ vector_index' = b.index
            /\ document_chunks' = b.chunks
            /\ recent_knowledge_searches' = <<>>
            /\ searched' = <<>>
            /\ last' = Outcome("init", FALSE)
            /\ UNCHANGED <<rows, embedding>>
            /\ UNCHANGED <<chunkVars, callVars, calendar_service, gmail_service, trace>>

\* search_knowledge_base(query, top_k) for a query and a top_k of the given
\* sets, while fewer than maxSearches searches produced a result
Search(queries, topKs, maxSearches) ==
    \E query \in queries, top_k \in topKs, fault \in {"none", "select", "encode"} :
        \E p \in RankChoices(vector_index, query) :
            LET o == SearchOutcome(rows, vector_index, document_chunks,
                                   query, top_k, fault, p)
            IN  /\ Len(searched) < maxSearches
                /\ last' = o
                /\ searched' =
                       IF ~o.raised /\ o.results # <<>>
                       THEN Append(searched, [query |-> query, results |-> o.results])
                       ELSE searched
                /\ recent_knowledge_searches' =
                       IF ~o.raised /\ o.results # <<>>
                       THEN LastN(Append(recent_knowledge_searches,
                                         [query |-> query, results |-> o.results]),
                                  RecentKept)
                       ELSE recent_knowledge_searches
                /\ UNCHANGED <<rows, vector_index, document_chunks, embedding>>
                /\ UNCHANGED <<chunkVars, callVars, calendar_service, gmail_service, trace>>

search_knowledge_base == Search(Queries, TopKs, MaxSearches)

Next ==
    \/ add_document
    \/ build_vector_index
    \/ load_or_create_vector_index
    \/ search_knowledge_base

Spec == AgentInit /\ [][Next]_vars

\* the number of vectors the index holds, none when it is absent
IndexSize == IF vector_index = None THEN 0 ELSE Len(vector_index.vectors)

\* C4: after any sequence of completed calls the index and document_chunks
\* correspond position by position: as many vectors as list entries, and the
\* vector at position p is the embedding of the content at position p.
C4_IndexParallel ==
    /\ IndexSize = Len(document_chunks)
    /\ \A p \in 1..IndexSize :
           vector_index.vectors[p] = embedding[document_chunks[p][2]]

\* C5: a search that completes on N indexed chunks produces at most
\* min(top_k, N) results, no chunk twice, in descending score order: the
\* placeholder hits of a short index are dropped.
C5_HitsResolved ==
    (last.op = "search" /\ ~last.raised /\ IndexSize > 0) =>
        /\ Len(last.results) <= Min(last.top_k, IndexSize)
        /\ \A i, j \in 1..Len(last.results) :
               last.results[i].doc_id = last.results[j].doc_id => i = j
        /\ \A i \in 1..(Len(last.results) - 1) :
               last.results[i].relevance_score >= last.results[i + 1].relevance_score

\* C6: a search made while the index is absent or the parallel list is empty
\* returns the 'Knowledge base is empty' sentinel, does not raise and calls
\* neither the embedding model nor the store.
C6_EmptySentinel ==
    (last.op = "search" /\ (vector_index = None \/ Len(document_chunks) = 0)) =>
        /\ last.out = "Knowledge base is empty"
        /\ ~last.raised
        /\ last.encodeCalls = 0
        /\ last.storeCalls = 0

C6_Witness ==
    /\ last.op = "search"
    /\ last.out = "Knowledge base is empty"
    /\ vector_index = None
    /\ rows # <<>>
    /\ document_chunks # <<>>

\* the index was rebuilt over the whole table, and no two chunks share a
\* content or the direction of their embedding
FreshDistinctCorpus ==
    /\ IndexSize = Len(rows)
    /\ Len(document_chunks) = Len(rows)
    /\ \A i, j \in 1..Len(rows) :
           (\/ rows[i].content = rows[j].content
            \/ embedding[rows[i].content].dir = embedding[rows[j].content].dir)
               => i = j

\* C7: a search with the content of a stored chunk returns that chunk first,
\* with the maximum score over all stored chunks (read here in the claim's
\* favour: over a fully indexed corpus of chunks with pairwise distinct
\* contents and embedding directions).
C7_SelfFirst ==
    (last.op = "search" /\ ~last.raised /\ FreshDistinctCorpus) =>
        \A i \in 1..Len(rows) :
            rows[i].content = last.query =>
                /\ last.results # <<>>
                /\ last.results[1].doc_id = rows[i].id
                /\ \A j \in 1..Len(rows) :
                       last.results[1].relevance_score >=
                           Dot(embedding[rows[j].content], embedding[last.query])

\* C13: add_document never raises: what the store or the embedding model
\* raises is caught at its boundary and turned into a returned string.
C13_AddNeverRaises ==
    last.op = "add_document" => ~last.raised

\* C14: when the embedding model fails while a query is answered on a
\* non-empty index, search_knowledge_base gives the 'Knowledge base is empty'
\* response and does not raise.
C14_EmbeddingDegrades ==
    (last.op = "search" /\ last.failed = "encode" /\ IndexSize > 0
                       /\ Len(document_chunks) > 0) =>
        /\ ~last.raised
        /\ last.out = "Knowledge base is empty"

\* C17: after an add_document that returns normally, document_chunks holds
\* the (id, content) of every row of the store exactly once and nothing
\* else, and the index holds one vector for each of them.
C17_RebuildCoversStore ==
    (last.op = "add_document" /\ ~last.raised) =>
        /\ \A i \in 1..Len(rows) :
               Cardinality({p \in 1..Len(document_chunks) :
                               document_chunks[p] = <<rows[i].id, rows[i].content>>}) = 1
        /\ Len(document_chunks) = Len(rows)
        /\ IndexSize = Len(rows)

\* an add_document that returns normally on a store of two rows
C17_Witness ==
    /\ last.op = "add_document"
    /\ ~last.raised
    /\ Len(rows) = 2
    /\ document_chunks = <<<<1, rows[1].content>>, <<2, rows[2].content>>>>

(***************************************************************************)
(* The store under add_document, with documents of more than one chunk.     *)
(***************************************************************************)
MaxStoreRows == 3

\* the chunk texts of the documents of StoreContents
StoreTexts == UNION {{Chunked[c][i] : i \in 1..Len(Chunked[c])} : c \in StoreContents}

\* a fresh agent; the embedding model gives every chunk text the same vector
StoreInit ==
    /\ rows = <<>>
    /\ vector_index = None
    /\ document_chunks = <<>>
    /\ recent_knowledge_searches = <<>>
    /\ embedding = [t \in StoreTexts |-> [dir |-> "x", len |-> 1]]
    /\ last = Outcome("init", FALSE)
    /\ pc = "idle"
    /\ ChunkIdle
    /\ CallIdle
    /\ ChatIdle

add_any_document == AddDocument(StoreContents, MaxStoreRows)

StoreNext == add_any_document

StoreSpec == StoreInit /\ [][StoreNext]_vars

\* the calls of add_document in StoreSpec: title, content, source, fault and
\* the position of the failing INSERT
StoreCalls ==
    {c \in Titles \X StoreContents \X Sources \X Faults \X (1..MaxStoreRows) :
        c[5] \in FailingInserts(Chunked[c[2]], c[4])}

\* C18: when add_document fails in its chunk writes (the k-th INSERT or the
\* commit raises), the store afterwards holds either all the chunk rows of
\* that document or none of them, never a non-empty part of them.
C18_AllOrNone ==
    [][\A c \in StoreCalls :
          (/\ AddDocumentCall(c[1], c[2], c[3], c[4], c[5], MaxStoreRows)
           /\ c[4] \in {"insert", "commit"}) =>
              /\ Len(rows') \in {Len(rows), Len(rows) + Len(Chunked[c[2]])}
              /\ SubSeq(rows', 1, Len(rows)) = rows]_vars

\* an add_document of a two-chunk document whose second INSERT raised, after
\* which the store holds none of its chunks
C18_Witness ==
    /\ last.op = "add_document"
    /\ last.failed = "insert"
    /\ last.inserted = 1
    /\ rows # <<>>
    /\ \A i \in 1..Len(rows) : rows[i].content = <<"a">>

\* C19: the store is append-only. Every add_document call (whose writes are
\* committed) adds exactly one row per chunk of chunk_text(content, 500, 50),
\* with ids no row has had, distinct from each other, chunk_index 0..n-1 in
\* chunk order and the title and source of the call; no call changes or
\* removes a row written before, also when the title is already stored.
C19_AppendOnly ==
    [][\A c \in StoreCalls :
          AddDocumentCall(c[1], c[2], c[3], c[4], c[5], MaxStoreRows) =>
              LET cs == Chunked[c[2]]
                  old == Len(rows)
              IN  /\ SubSeq(rows', 1, old) = rows
                  /\ c[4] \notin {"insert", "commit"} =>
                         /\ Len(rows') = old + Len(cs)
                         /\ \A i \in 1..Len(cs) :
                                /\ rows'[old + i].title = c[1]
                                /\ rows'[old + i].source = c[3]
                                /\ rows'[old + i].content = cs[i]
                                /\ rows'[old + i].chunk_id = i - 1
                                /\ \A j \in 1..(old + Len(cs)) :
                                       rows'[j].id = rows'[old + i].id => j = old + i]_vars

\* a two-chunk document stored under a title the store already has: the old
\* row stays and two rows are added
C19_Witness ==
    /\ last.op = "add_document"
    /\ ~last.raised
    /\ Len(rows) = 3
    /\ rows[1].content = <<"a">>
    /\ rows[2].chunk_id = 0 /\ rows[3].chunk_id = 1
    /\ rows[1].title = rows[2].title
    /\ Len(rows[2].content) = 999

(***************************************************************************)
(* build_vector_index statement by statement, with searches in between.     *)
(***************************************************************************)
\* the (id, content) list of a table
ChunksOf(table) == [i \in 1..Len(table) |-> <<table[i].id, table[i].content>>]

\* the contents of a table
TextsOf(table) == [i \in 1..Len(table) |-> table[i].content]

\* a table of single-chunk documents with the given contents
TableOf(contents) ==
    [i \in 1..Len(contents) |->
        [id |-> i, title |-> CHOOSE t \in Titles : TRUE, content |-> contents[i],
         source |-> CHOOSE src \in Sources : TRUE, chunk_id |-> 0]]

\* add_document has committed the last row of the table and enters
\* build_vector_index; the index and the list are those of the rows before
RebuildInit ==
    /\ embedding \in [EmbedTexts -> Vectors]
    /\ \E n \in 1..MaxRows :
           \E contents \in [1..n -> Contents \ {<<>>}] :
               LET old == BuildVectorIndex(TableOf(SubSeq(contents, 1, n - 1)),
                                           None, <<>>, "none")
               IN  /\ rows = TableOf(contents)
                   /\ vector_index = old.index
                   /\ document_chunks = old.chunks
    /\ recent_knowledge_searches = <<>>
    /\ last = NoCall
    /\ pc = "select"
    /\ ChunkIdle
    /\ CallIdle
    /\ ChatIdle

\* lines 154-161: the SELECT over the table
RebuildSelect ==
    /\ pc = "select"
    /\ \E fault \in {"none", "select"} :
           pc' = IF fault = "select" THEN "failed"
                 ELSE IF rows = <<>> THEN "done" ELSE "assign"
    /\ UNCHANGED <<text, chunk_size, overlap, chunks, agentVars, callVars, chatVars>>

\* line 164: self.document_chunks = [...]
RebuildAssignChunks ==
    /\ pc = "assign"
    /\ document_chunks' = ChunksOf(rows)
    /\ pc' = "encode"
    /\ UNCHANGED <<rows, vector_index, recent_knowledge_searches, embedding, last>>
    /\ UNCHANGED <<text, chunk_size, overlap, chunks, callVars, chatVars>>

\* line 167: embeddings = self.embedding_model.encode(texts)
RebuildEncode ==
    /\ pc = "encode"
    /\ \E fault \in {"none", "encode"} :
           pc' = IF fault = "encode" THEN "failed" ELSE "create"
    /\ UNCHANGED <<text, chunk_size, overlap, chunks, agentVars, callVars, chatVars>>

\* line 170: self.vector_index = faiss.IndexFlatIP(dimension), with no vector
RebuildCreateIndex ==
    /\ pc = "create"
    /\ vector_index' = IndexFlatIP(<<>>)
    /\ pc' = "add"
    /\ UNCHANGED <<rows, document_chunks, recent_knowledge_searches, embedding, last>>
    /\ UNCHANGED <<text, chunk_size, overlap, chunks, callVars, chatVars>>

\* lines 172-173: self.vector_index.add(embeddings.astype('float32'))
RebuildAddVectors ==
    /\ pc = "add"
    /\ vector_index' = IndexFlatIP(AsType(Encode(TextsOf(rows))))
    /\ pc' = "done"
    /\ UNCHANGED <<rows, document_chunks, recent_knowledge_searches, embedding, last>>
    /\ UNCHANGED <<text, chunk_size, overlap, chunks, callVars, chatVars>>

RebuildNext ==
    \/ RebuildSelect
    \/ RebuildAssignChunks
    \/ RebuildEncode
    \/ RebuildCreateIndex
    \/ RebuildAddVectors
    \/ search_knowledge_base

RebuildSpec == RebuildInit /\ [][RebuildNext]_vars

\* C16: a search that runs while a rebuild is in flight, or after a rebuild
\* was abandoned because the embedding model failed, finds the index and the
\* list entirely old or entirely new: as many vectors as list entries, the
\* p-th vector the embedding of the p-th entry.
C16_WholePair ==
    [][search_knowledge_base =>
          /\ IndexSize = Len(document_chunks)
          /\ \A p \in 1..IndexSize :
                 vector_index.vectors[p] = embedding[document_chunks[p][2]]]_vars

(***************************************************************************)
(* call_ollama and the string operations applied to what it returns.        *)
(***************************************************************************)
MaxFragments == 2
MaxReplyLen == 3

LowerLetters ==
    <<"a", "b", "c", "d", "e", "f", "g", "h", "i", "j", "k", "l", "m", "n",
      "o", "p", "q", "r", "s", "t", "u", "v", "w", "x", "y", "z">>

UpperLetters ==
    <<"A", "B", "C", "D", "E", "F", "G", "H", "I", "J", "K", "L", "M", "N",
      "O", "P", "Q", "R", "S", "T", "U", "V", "W", "X", "Y", "Z">>

DigitChars == <<"0", "1", "2", "3", "4", "5", "6", "7", "8", "9">>

\* the position of c in seq, 0 when it is not there
IndexOf(seq, c) ==
    IF \E i \in 1..Len(seq) : seq[i] = c
    THEN CHOOSE i \in 1..Len(seq) : seq[i] = c
    ELSE 0

UpperChar(c) == IF IndexOf(LowerLetters, c) > 0 THEN UpperLetters[IndexOf(LowerLetters, c)] ELSE c

LowerChar(c) == IF IndexOf(UpperLetters, c) > 0 THEN LowerLetters[IndexOf(UpperLetters, c)] ELSE c

\* str.upper()
Upper(s) == [i \in 1..Len(s) |-> UpperChar(s[i])]

Lower(s) == [i \in 1..Len(s) |-> LowerChar(s[i])]

\* str.strip(): without the leading and the trailing whitespace
Strip(s) ==
    LET kept == {i \in 1..Len(s) : s[i] \notin Whitespace}
    IN  IF kept = {} THEN <<>>
        ELSE SubSeq(s, CHOOSE i \in kept : \A j \in kept : i <= j,
                       CHOOSE i \in kept : \A j \in kept : i >= j)

\* t in s
Contains(s, t) ==
    \E i \in 0..(Len(s) - Len(t)) : SubSeq(s, i + 1, i + Len(t)) = t

IsDigit(c) == IndexOf(DigitChars, c) > 0

RECURSIVE DigitRuns(_, _, _)
\* re.findall(r'\d+', s) from position p on, cur being the run read so far
DigitRuns(s, p, cur) ==
    IF p > Len(s)
    THEN IF cur = <<>> THEN <<>> ELSE <<cur>>
    ELSE IF IsDigit(s[p])
         THEN DigitRuns(s, p + 1, Append(cur, s[p]))
         ELSE IF cur = <<>>
              THEN DigitRuns(s, p + 1, <<>>)
              ELSE <<cur>> \o DigitRuns(s, p + 1, <<>>)

\* re.findall(r'\d+', s)
FindAllNumbers(s) == DigitRuns(s, 1, <<>>)

RECURSIVE IntOf(_)
\* int(digits)
IntOf(digits) ==
    IF digits = <<>> THEN 0
    ELSE 10 * IntOf(SubSeq(digits, 1, Len(digits) - 1))
         + (IndexOf(DigitChars, digits[Len(digits)]) - 1)

ErrorPrefix ==
    <<"E", "r", "r", "o", "r", " ", "c", "a", "l", "l", "i", "n", "g", " ",
      "O", "l", "l", "a", "m", "a", ":", " ">>

\* what the exception of a failed call may say
ExceptionTexts ==
    {<<"r", "e", "f", "u", "s", "e", "d">>,
     <<"p", "o", "r", "t", "=", "1", "1", "4", "3", "4">>}

Str(s) == [type |-> "str", value |-> s]

PyNone == [type |-> "NoneType", value |-> <<>>]

\* call_ollama(prompt): the "response" field of the JSON answer, "" when the
\* field is missing, and the error text when the call or the parsing raises
call_ollama(r) ==
    IF r.kind \in {"transport_error", "not_json", "not_dict"}
    THEN Str(ErrorPrefix \o r.message)
    ELSE IF r.kind = "no_response_field"
    THEN Str(<<>>)
    ELSE IF r.kind = "null_response"
    THEN PyNone
    ELSE Str(r.value)

\* the answers that make call_ollama return a string
FailedReplies ==
    {[kind |-> k, message |-> e] :
        k \in {"transport_error", "not_json", "not_dict"}, e \in ExceptionTexts}
    \cup {[kind |-> "no_response_field"]}

StringReplies(strings) == {[kind |-> "response", value |-> s] : s \in strings}

ReturnsString == call_ollama(reply).type = "str"

(***************************************************************************)
(* detect_user_intent_with_context                                          *)
(***************************************************************************)
SHOW_CALENDAR ==
    <<"S", "H", "O", "W", "_", "C", "A", "L", "E", "N", "D", "A", "R">>

CREATE_EMAIL ==
    <<"C", "R", "E", "A", "T", "E", "_", "E", "M", "A", "I", "L">>

KNOWLEDGE_SEARCH ==
    <<"K", "N", "O", "W", "L", "E", "D", "G", "E", "_", "S", "E", "A", "R",
      "C", "H">>

\* the pieces the collaborator's answers are made of
Fragments ==
    {SHOW_CALENDAR, Lower(SHOW_CALENDAR), CREATE_EMAIL, Lower(CREATE_EMAIL),
     KNOWLEDGE_SEARCH, <<"S", "H", "O", "W", "_">>,
     <<"C", "A", "L", "E", "N", "D", "A", "R">>, <<" ">>, <<"x">>}

RECURSIVE Concat(_)
Concat(ss) == IF ss = <<>> THEN <<>> ELSE Head(ss) \o Concat(Tail(ss))

IntentAnswers == {Concat(fs) : fs \in SeqsUpTo(Fragments, MaxFragments)}

\* the match with the email token tested first
ClassifyEmailFirst(response) ==
    IF Contains(response, CREATE_EMAIL) THEN CREATE_EMAIL
    ELSE IF Contains(response, SHOW_CALENDAR) THEN SHOW_CALENDAR
    ELSE KNOWLEDGE_SEARCH

\* the match on the upper-cased response, calendar first
Classify(response) ==
    IF Contains(response, SHOW_CALENDAR) THEN SHOW_CALENDAR
    ELSE IF Contains(response, CREATE_EMAIL) THEN CREATE_EMAIL
    ELSE KNOWLEDGE_SEARCH

\* detect_user_intent_with_context(message, chat_history), given what the
\* collaborator answers to the prompt
detect_user_intent_with_context(r) ==
    LET answer == call_ollama(r)
    IN  IF answer.type # "str"
        THEN [raised |-> TRUE, value |-> <<>>]
        ELSE [raised |-> FALSE, value |-> Classify(Upper(Strip(answer.value)))]

IntentInit ==
    /\ reply \in StringReplies(IntentAnswers) \cup FailedReplies
                 \cup {[kind |-> "null_response"]}
    /\ chat_history = <<>>
    /\ max_exchanges = 0
    /\ ret = NoReturn
    /\ pc = "call"
    /\ ChunkIdle
    /\ AgentIdle
    /\ ChatIdle

CallDetectIntent ==
    /\ pc = "call"
    /\ ret' = detect_user_intent_with_context(reply)
    /\ pc' = "done"
    /\ UNCHANGED <<reply, chat_history, max_exchanges>>
    /\ UNCHANGED <<text, chunk_size, overlap, chunks, agentVars, chatVars>>

IntentNext == CallDetectIntent

IntentSpec == IntentInit /\ [][IntentNext]_vars

\* the string call_ollama handed to the caller
Answer == call_ollama(reply).value

\* C8 (as stated): for every response string the intent is SHOW_CALENDAR when
\* the response contains the calendar token, CREATE_EMAIL when it contains
\* the email token and not the calendar token, KNOWLEDGE_SEARCH otherwise.
C8_IntentAsStated ==
    (pc = "done" /\ ReturnsString) =>
        /\ ~ret.raised
        /\ ret.value = IF Contains(Answer, SHOW_CALENDAR) THEN SHOW_CALENDAR
                       ELSE IF Contains(Answer, CREATE_EMAIL) THEN CREATE_EMAIL
                       ELSE KNOWLEDGE_SEARCH

\* C8 (amended): the tokens are looked for in the upper-cased response, so a
\* token in any letter case counts: calendar first, then email, otherwise
\* KNOWLEDGE_SEARCH; the call does not raise on any response string.
C8_Intent ==
    (pc = "done" /\ ReturnsString) =>
        /\ ~ret.raised
        /\ ret.value \in {SHOW_CALENDAR, CREATE_EMAIL, KNOWLEDGE_SEARCH}
        /\ ret.value = SHOW_CALENDAR <=> Contains(Upper(Answer), SHOW_CALENDAR)
        /\ ret.value = CREATE_EMAIL <=>
               (/\ Contains(Upper(Answer), CREATE_EMAIL)
                /\ ~Contains(Upper(Answer), SHOW_CALENDAR))

C8_Witness ==
    /\ pc = "done"
    /\ reply.kind = "response"
    /\ Contains(Answer, CREATE_EMAIL)
    /\ Contains(Answer, SHOW_CALENDAR)
    /\ ret.value = SHOW_CALENDAR

(***************************************************************************)
(* extract_time_context                                                     *)
(***************************************************************************)
\* the horizon returned when the response holds no number
DefaultDays == 7

\* the characters the collaborator's answers to the time prompt are made of
TimeChars == {"0", "1", "7", " ", "d"}

TimeAnswers == SeqsUpTo(TimeChars, MaxReplyLen)

\* int(numbers[0])
FirstNumber(numbers) == IntOf(numbers[1])

\* extract_time_context(message), given what the collaborator answers
extract_time_context(r) ==
    LET answer == call_ollama(r)
    IN  IF answer.type # "str"
        THEN [raised |-> TRUE, value |-> 0]
        ELSE LET numbers == FindAllNumbers(Strip(answer.value))
             IN  IF numbers # <<>>
                 THEN [raised |-> FALSE, value |-> FirstNumber(numbers)]
                 ELSE [raised |-> FALSE, value |-> DefaultDays]

TimeInit ==
    /\ reply \in StringReplies(TimeAnswers) \cup FailedReplies
                 \cup {[kind |-> "null_response"]}
    /\ chat_history = <<>>
    /\ max_exchanges = 0
    /\ ret = NoReturn
    /\ pc = "call"
    /\ ChunkIdle
    /\ AgentIdle
    /\ ChatIdle

CallExtractTime ==
    /\ pc = "call"
    /\ ret' = extract_time_context(reply)
    /\ pc' = "done"
    /\ UNCHANGED <<reply, chat_history, max_exchanges>>
    /\ UNCHANGED <<text, chunk_size, overlap, chunks, agentVars, chatVars>>

TimeNext == CallExtractTime

TimeSpec == TimeInit /\ [][TimeNext]_vars

\* C9: for every response string extract_time_context returns an integer
\* >= 1 without raising, and 7 when the response holds no digit.
C9_PositiveDays ==
    (pc = "done" /\ ReturnsString) =>
        /\ ~ret.raised
        /\ ret.value \in Nat
        /\ ret.value >= 1
        /\ (\A i \in 1..Len(Answer) : ~IsDigit(Answer[i])) => ret.value = DefaultDays

(***************************************************************************)
(* build_conversation_context                                               *)
(***************************************************************************)
MaxHistory == 4
MaxExchanges == 1

\* the number of characters of an agent turn that are rendered
AgentBudget == 200

\* n times the character c
Rep(c, n) == [i \in 1..n |-> c]

Roles == {"user", "agent"}

\* the messages of the turns: a short one, one of exactly the budget and one
\* over it
Messages == {<<"h", "i">>, Rep("y", AgentBudget), Rep("z", AgentBudget + 1)}

Turns == {<<role, message>> : role \in Roles, message \in Messages}

ContextHeader ==
    <<"R", "e", "c", "e", "n", "t", " ", "c", "o", "n", "v", "e", "r", "s", "a", "t", "i", "o", "n",
      ":", "\n">>

UserLabel == <<"U", "s", "e", "r", ":", " ">>

AgentLabel == <<"A", "g", "e", "n", "t", ":", " ">>

Ellipsis == <<".", ".", ".">>

\* the last n turns of history, for 0 <= n <= Len(history)
LastTurnsExact(history, n) == SubSeq(history, Len(history) - n + 1, Len(history))

\* chat_history[-n:]: the last n turns, and all of them when n = 0, as -0 is 0
LastTurns(history, n) ==
    IF n = 0 THEN history ELSE SubSeq(history, Max(1, Len(history) - n + 1), Len(history))

\* the turns that are rendered
RecentHistory(history, exchanges) ==
    IF Len(history) > exchanges * 2
    THEN LastTurns(history, exchanges * 2)
    ELSE history

\* the line of one turn, were a message of exactly the budget cut as well
RenderTurnAtBudget(turn) ==
    IF turn[1] = "user"
    THEN UserLabel \o turn[2] \o <<"\n">>
    ELSE IF Len(turn[2]) >= AgentBudget
         THEN AgentLabel \o SubSeq(turn[2], 1, AgentBudget) \o Ellipsis \o <<"\n">>
         ELSE AgentLabel \o turn[2] \o <<"\n">>

\* the line of one turn
RenderTurn(turn) ==
    IF turn[1] = "user"
    THEN UserLabel \o turn[2] \o <<"\n">>
    ELSE IF Len(turn[2]) > AgentBudget
         THEN AgentLabel \o SubSeq(turn[2], 1, AgentBudget) \o Ellipsis \o <<"\n">>
         ELSE AgentLabel \o turn[2] \o <<"\n">>

RECURSIVE RenderTurns(_)
RenderTurns(turns) ==
    IF turns = <<>> THEN <<>> ELSE RenderTurn(Head(turns)) \o RenderTurns(Tail(turns))

build_conversation_context(history, exchanges) ==
    IF history = <<>>
    THEN <<>>
    ELSE ContextHeader \o RenderTurns(RecentHistory(history, exchanges)) \o <<"\n">>

ContextInit ==
    /\ chat_history \in SeqsUpTo(Turns, MaxHistory)
    /\ max_exchanges \in 0..MaxExchanges
    /\ reply = [kind |-> "none"]
    /\ ret = NoReturn
    /\ pc = "call"
    /\ ChunkIdle
    /\ AgentIdle
    /\ ChatIdle

CallBuildContext ==
    /\ pc = "call"
    /\ ret' = [raised |-> FALSE,
               value |-> build_conversation_context(chat_history, max_exchanges)]
    /\ pc' = "done"
    /\ UNCHANGED <<reply, chat_history, max_exchanges>>
    /\ UNCHANGED <<text, chunk_size, overlap, chunks, agentVars, chatVars>>

ContextNext == CallBuildContext

ContextSpec == ContextInit /\ [][ContextNext]_vars

\* C10: the digest renders exactly the last min(len(history), 2 *
\* max_exchanges) turns, one line per turn in their order, and no earlier
\* turn (the digest of an empty history is the empty string).
C10_LastTurns ==
    pc = "done" =>
        LET k == Min(Len(chat_history), 2 * max_exchanges)
            rendered == LastTurnsExact(chat_history, k)
        IN  ret.value = IF chat_history = <<>> THEN <<>>
                        ELSE ContextHeader \o RenderTurns(rendered) \o <<"\n">>

\* the positions of the line ends of s
LineEnds(s) == {i \in 1..Len(s) : s[i] = "\n"}

\* the position of the k-th line end of s
LineEnd(s, k) ==
    CHOOSE i \in LineEnds(s) : Cardinality({j \in LineEnds(s) : j < i}) = k - 1

\* the k-th line of s, without its line end
Line(s, k) ==
    SubSeq(s, (IF k = 1 THEN 0 ELSE LineEnd(s, k - 1)) + 1, LineEnd(s, k) - 1)

\* C11: in the digest of a non-empty history each rendered turn has one
\* line: an agent turn of more than 200 characters is its first 200
\* characters and then the ellipsis, an agent turn of at most 200 characters
\* is in full with no ellipsis, and a user turn is in full at every length.
C11_Truncation ==
    (pc = "done" /\ chat_history # <<>>) =>
        LET turns == RecentHistory(chat_history, max_exchanges)
        IN  /\ Cardinality(LineEnds(ret.value)) = Len(turns) + 2
            /\ \A i \in 1..Len(turns) :
                   LET role == turns[i][1]
                       message == turns[i][2]
                       line == Line(ret.value, i + 1)
                   IN  /\ role = "user" => line = UserLabel \o message
                       /\ (role = "agent" /\ Len(message) > 200) =>
                              line = AgentLabel \o SubSeq(message, 1, 200) \o <<".", ".", ".">>
                       /\ (role = "agent" /\ Len(message) <= 200) =>
                              line = AgentLabel \o message

\* a digest of two turns: an agent turn over 200 characters, cut, and an
\* agent turn of exactly 200, in full
C11_Witness ==
    /\ pc = "done"
    /\ max_exchanges = 1
    /\ Len(chat_history) = 2
    /\ chat_history[1] = <<"agent", Rep("z", 201)>>
    /\ chat_history[2] = <<"agent", Rep("y", 200)>>
    /\ Line(ret.value, 2) = AgentLabel \o Rep("z", 200) \o Ellipsis
    /\ Line(ret.value, 3) = AgentLabel \o Rep("y", 200)

(***************************************************************************)
(* chat and the handlers it routes to.  In the texts of this part a title,  *)
(* a number, a date, an emoji or the message of an exception stands as one  *)
(* element.                                                                 *)
(***************************************************************************)
\* what search_knowledge_base returns on an absent or empty index
EmptyText ==
    <<"K", "n", "o", "w", "l", "e", "d", "g", "e", " ", "b", "a", "s", "e",
      " ", "i", "s", " ", "e", "m", "p", "t", "y", ".", " ", "P", "l", "e",
      "a", "s", "e", " ", "a", "d", "d", " ", "s", "o", "m", "e", " ", "d",
      "o", "c", "u", "m", "e", "n", "t", "s", " ", "f", "i", "r", "s", "t",
      ".">>

\* what search_knowledge_base returns when no result was assembled
NoRelevantText ==
    <<"N", "o", " ", "r", "e", "l", "e", "v", "a", "n", "t", " ", "i", "n",
      "f", "o", "r", "m", "a", "t", "i", "o", "n", " ", "f", "o", "u", "n",
      "d", " ", "i", "n", " ", "t", "h", "e", " ", "k", "n", "o", "w", "l",
      "e", "d", "g", "e", " ", "b", "a", "s", "e", ".">>

\* the words the formatted results begin with, and the calendar handler
\* looks for
FoundMarker ==
    <<"F", "o", "u", "n", "d", " ", "r", "e", "l", "e", "v", "a", "n", "t",
      " ", "i", "n", "f", "o", "r", "m", "a", "t", "i", "o", "n">>

FoundHeaderEnd ==
    <<":", "\n", "\n">>

\* the heading of the knowledge section of the calendar answer
KnowledgeSection ==
    <<"(bulb)", " ", "R", "e", "l", "e", "v", "a", "n", "t", " ", "c", "o", "m",
      "p", "a", "n", "y", " ", "i", "n", "f", "o", "r", "m", "a", "t", "i",
      "o", "n", ":", "\n">>

CalendarNotConnected ==
    <<"G", "o", "o", "g", "l", "e", " ", "C", "a", "l", "e", "n", "d", "a",
      "r", " ", "n", "o", "t", " ", "c", "o", "n", "n", "e", "c", "t", "e",
      "d", ".", " ", "P", "l", "e", "a", "s", "e", " ", "s", "e", "t", " ",
      "u", "p", " ", "a", "u", "t", "h", "e", "n", "t", "i", "c", "a", "t",
      "i", "o", "n", " ", "f", "i", "r", "s", "t", ".">>

NoEventsText ==
    <<"N", "o", " ", "u", "p", "c", "o", "m", "i", "n", "g", " ", "c", "a",
      "l", "e", "n", "d", "a", "r", " ", "e", "v", "e", "n", "t", "s", " ",
      "f", "o", "u", "n", "d", " ", "i", "n", " ", "t", "h", "e", " ", "s",
      "p", "e", "c", "i", "f", "i", "e", "d", " ", "t", "i", "m", "e", " ",
      "p", "e", "r", "i", "o", "d", ".">>

HttpErrorPrefix ==
    <<"A", "n", " ", "e", "r", "r", "o", "r", " ", "o", "c", "c", "u", "r",
      "r", "e", "d", " ", "w", "h", "i", "l", "e", " ", "f", "e", "t", "c",
      "h", "i", "n", "g", " ", "c", "a", "l", "e", "n", "d", "a", "r", " ",
      "e", "v", "e", "n", "t", "s", ":", " ">>

CalendarErrorPrefix ==
    <<"E", "r", "r", "o", "r", " ", "a", "c", "c", "e", "s", "s", "i", "n",
      "g", " ", "G", "o", "o", "g", "l", "e", " ", "C", "a", "l", "e", "n",
      "d", "a", "r", ":", " ">>

GmailNotConnected ==
    <<"G", "m", "a", "i", "l", " ", "n", "o", "t", " ", "c", "o", "n", "n",
      "e", "c", "t", "e", "d", ".", " ", "P", "l", "e", "a", "s", "e", " ",
      "s", "e", "t", " ", "u", "p", " ", "a", "u", "t", "h", "e", "n", "t",
      "i", "c", "a", "t", "i", "o", "n", " ", "f", "i", "r", "s", "t", ".">>

DraftErrorPrefix ==
    <<"E", "r", "r", "o", "r", " ", "c", "r", "e", "a", "t", "i", "n", "g",
      " ", "e", "m", "a", "i", "l", " ", "d", "r", "a", "f", "t", ":", " ">>

DraftCreated ==
    <<"(tick)", " ", "E", "m", "a", "i", "l", " ", "d", "r", "a", "f", "t", " ",
      "c", "r", "e", "a", "t", "e", "d", " ", "s", "u", "c", "c", "e", "s",
      "s", "f", "u", "l", "l", "y", "!", "\n", "\n", "(mail)", " ", "S", "u", "b",
      "j", "e", "c", "t", ":", " ">>

SorryPrefix ==
    <<"S", "o", "r", "r", "y", ",", " ", "I", " ", "e", "n", "c", "o", "u",
      "n", "t", "e", "r", "e", "d", " ", "a", "n", " ", "e", "r", "r", "o",
      "r", ":", " ">>

DocumentLabel == <<"D", "o", "c", "u", "m", "e", "n", "t", " ">>

ContentLabel == <<"C", "o", "n", "t", "e", "n", "t", ":", " ">>

RelevanceLabel == <<"R", "e", "l", "e", "v", "a", "n", "c", "e", ":", " ">>

RECURSIVE FormatFrom(_, _)
\* lines 225-228: the block of result i and of those after it
FormatFrom(results, i) ==
    IF i > Len(results) THEN <<>>
    ELSE DocumentLabel \o <<ToString(i), ":", " ", results[i].title, "\n">>
         \o ContentLabel \o results[i].content \o <<"\n">>
         \o RelevanceLabel \o <<ToString(results[i].relevance_score), "\n", "\n">>
         \o FormatFrom(results, i + 1)

\* the string a search that does not raise returns
SearchText(o) ==
    IF o.out = "Knowledge base is empty" THEN EmptyText
    ELSE IF o.results # <<>>
    THEN FoundMarker \o FoundHeaderEnd \o FormatFrom(o.results, 1)
    ELSE NoRelevantText

\* self.recent_knowledge_searches after a search with outcome o
Remember(recent, o) ==
    IF ~o.raised /\ o.results # <<>>
    THEN LastN(Append(recent, [query |-> o.query, results |-> o.results]), RecentKept)
    ELSE recent

\* the ways search_knowledge_base(query, top_k) can go in the current state
SearchRuns(query, top_k) ==
    {SearchOutcome(rows, vector_index, document_chunks, query, top_k, fault, p) :
        fault \in {"none", "select", "encode"}, p \in RankChoices(vector_index, query)}

\* entries of the trace: a call of call_ollama with the prompt of a handler,
\* a call of search_knowledge_base, the events().list() request and the
\* drafts().create() request
Generate(prompt, answer) == [call |-> "generate", prompt |-> prompt, type |-> answer.type]

Retrieve(o) ==
    [call |-> "search", query |-> o.query, top_k |-> o.top_k, raised |-> o.raised,
     results |-> Len(o.results), hits |-> o.results,
     text |-> IF o.raised THEN <<>> ELSE SearchText(o)]

\* the searches among the calls that returned at least one result, in order
Found(calls) ==
    LET s == SelectSeq(calls, LAMBDA c : c.call = "search" /\ ~c.raised /\ c.results >= 1)
    IN  [i \in 1..Len(s) |-> [query |-> s[i].query, results |-> s[i].hits]]

\* a request for the events of the default number of days
ListEventsDefault(days) == [call |-> "calendar", days |-> DefaultDays]

ListEvents(days) == [call |-> "calendar", days |-> days]

CreateDraft == [call |-> "gmail"]

\* how a handler ended: the value returned or the exception raised, the
\* collaborator that failed, the calls made and the recent searches after
Return(value, failed, calls, recent) ==
    [raised |-> FALSE, value |-> value, failed |-> failed, calls |-> calls,
     recent |-> recent]

Raise(failed, calls, recent) ==
    [raised |-> TRUE, value |-> Str(<<"(", failed, ")">>), failed |-> failed,
     calls |-> calls, recent |-> recent]

TimeLabel == <<" ", " ", " ", "T", "i", "m", "e", ":", " ">>

FoundEvents == <<"F", "o", "u", "n", "d", " ">>

UpcomingEvents ==
    <<" ", "u", "p", "c", "o", "m", "i", "n", "g", " ", "e", "v", "e", "n", "t", "s", ":",
      "\n", "\n">>

(***************************************************************************)
(* get_upcoming_calendar_events                                             *)
(***************************************************************************)
\* a connected Google service
Connected(name) == [kind |-> "Resource", name |-> name]

\* the events of the calendar: a summary and an all-day start date
Events == {[summary |-> <<"a">>, date |-> "2025-01-06"]}

\* what events().list(...).execute() meets: a list of events, an HttpError
\* or another exception
CalendarAnswers ==
    {[kind |-> "items", items |-> <<>>]}
    \cup {[kind |-> "items", items |-> <<e>>] : e \in Events}
    \cup {[kind |-> "http_error"], [kind |-> "error"]}

RECURSIVE EventLines(_, _)
\* lines 351-372: the lines of event i and of those after it
EventLines(items, i) ==
    IF i > Len(items) THEN <<>>
    ELSE <<ToString(i), ".", " ">> \o items[i].summary \o <<"\n">>
         \o TimeLabel \o <<items[i].date, "\n", "\n">>
         \o EventLines(items, i + 1)

\* a test that takes every answer of the search for knowledge
HasKnowledgeAlways(relevant_context) == relevant_context # <<>>

\* line 376: "Found relevant information" in relevant_context
HasKnowledge(relevant_context) == Contains(relevant_context, FoundMarker)

\* lines 350-379: the answer for a non-empty list of events
CalendarResult(items, relevant_context) ==
    FoundEvents \o <<ToString(Len(items))>> \o UpcomingEvents
    \o EventLines(items, 1)
    \o (IF HasKnowledge(relevant_context)
        THEN KnowledgeSection \o relevant_context \o <<"\n">>
        ELSE <<>>)

\* ' '.join(event_titles)
CombinedTitles(items) == Join([i \in 1..Len(items) |-> items[i].summary])

\* the ways get_upcoming_calendar_events(days_ahead) can go
get_upcoming_calendar_events(days_ahead, recent) ==
    IF calendar_service = None
    THEN {Return(Str(CalendarNotConnected), "none", <<>>, recent)}
    ELSE UNION {
        LET listed == <<ListEvents(days_ahead)>>
        IN  IF answer.kind = "http_error"
            THEN {Return(Str(HttpErrorPrefix \o <<"(HttpError)">>), "calendar", listed,
                         recent)}
            ELSE IF answer.kind = "error"
            THEN {Return(Str(CalendarErrorPrefix \o <<"(Exception)">>), "calendar",
                         listed, recent)}
            ELSE IF answer.items = <<>>
            THEN {Return(Str(NoEventsText), "none", listed, recent)}
            ELSE {IF o.raised
                  THEN Return(Str(CalendarErrorPrefix \o <<"(Exception)">>), o.failed,
                              Append(listed, Retrieve(o)), recent)
                  ELSE Return(Str(CalendarResult(answer.items, SearchText(o))), "none",
                              Append(listed, Retrieve(o)), Remember(recent, o)) :
                  o \in SearchRuns(CombinedTitles(answer.items), 2)} :
        answer \in CalendarAnswers}

(***************************************************************************)
(* create_gmail_draft                                                       *)
(***************************************************************************)
\* what the generation service answers in chat: a text, a refused
\* connection, or a JSON answer whose "response" is null
ChatFailures ==
    {[kind |-> "transport_error", message |-> <<"r", "e", "f", "u", "s", "e", "d">>],
     [kind |-> "null_response"]}

TextReplies == StringReplies({<<"a">>}) \cup ChatFailures

\* whether drafts().create(...).execute() raises
GmailAnswers == {"created", "error"}

\* the ways create_gmail_draft({"email_intent": email_intent}) can go; the
\* subject, the preview and the link of the answer stand as one element
create_gmail_draft(email_intent, recent) ==
    IF gmail_service = None
    THEN {Return(Str(GmailNotConnected), "none", <<>>, recent)}
    ELSE UNION {
        IF o.raised
        THEN {Return(Str(DraftErrorPrefix \o <<"(Exception)">>), o.failed,
                     <<Retrieve(o)>>, recent)}
        ELSE UNION {
            LET draft_content == call_ollama(r)
                calls == <<Retrieve(o), Generate("draft", draft_content)>>
            IN  IF draft_content.type # "str"
                THEN {Return(Str(DraftErrorPrefix \o <<"(AttributeError)">>), "generate",
                             calls, Remember(recent, o))}
                ELSE {IF g = "error"
                      THEN Return(Str(DraftErrorPrefix \o <<"(Exception)">>), "gmail",
                                  Append(calls, CreateDraft), Remember(recent, o))
                      ELSE Return(Str(DraftCreated \o <<"(subject, preview, link)">>),
                                  "none", Append(calls, CreateDraft),
                                  Remember(recent, o)) :
                      g \in GmailAnswers} :
            r \in TextReplies} :
        o \in SearchRuns(email_intent, 2)}

(***************************************************************************)
(* chat                                                                     *)
(***************************************************************************)
MaxChatRows == 1

\* the documents added before and between the chat calls
ChatContents == {<<"a">>}

IntentReplies == StringReplies({SHOW_CALENDAR, CREATE_EMAIL, <<"a">>}) \cup ChatFailures

TimeReplies == StringReplies({<<"2">>, <<"a">>}) \cup ChatFailures

\* the texts the embedding model is asked to embed: the chunks, the message,
\* the event titles and the email intents
ChatTexts ==
    EmbedTexts \cup Queries \cup {e.summary : e \in Events}
    \cup {Strip(call_ollama(r).value) : r \in {x \in TextReplies : call_ollama(x).type = "str"}}

\* the branch chat took (none when the classification raised), the days it
\* extracted (-1 when it extracted none) and how the body of chat ended
Routed(intent, days, run) == [intent |-> intent, days |-> days, run |-> run]

\* run, after the calls made before it
After(calls, run) == [run EXCEPT !.calls = calls \o @]

\* the branch of chat for SHOW_CALENDAR
ShowCalendar(before) ==
    UNION {
        LET days == extract_time_context(r)
            calls == Append(before, Generate("time", call_ollama(r)))
        IN  IF days.raised
            THEN {Routed("SHOW_CALENDAR", -1,
                         Raise("generate", calls, recent_knowledge_searches))}
            ELSE {Routed("SHOW_CALENDAR", days.value, After(calls, events)) :
                     events \in get_upcoming_calendar_events(days.value,
                                                             recent_knowledge_searches)} :
        r \in TimeReplies}

\* the branch of chat for CREATE_EMAIL
CreateEmail(before) ==
    UNION {
        LET response == call_ollama(r)
            calls == Append(before, Generate("email_context", response))
        IN  IF response.type # "str"
            THEN {Routed("CREATE_EMAIL", -1,
                         Raise("generate", calls, recent_knowledge_searches))}
            ELSE {Routed("CREATE_EMAIL", -1, After(calls, draft_result)) :
                     draft_result \in create_gmail_draft(Strip(response.value),
                                                         recent_knowledge_searches)} :
        r \in TextReplies}

\* the branch of chat for KNOWLEDGE_SEARCH
KnowledgeSearch(before, user_message) ==
    UNION {
        LET calls == Append(before, Retrieve(o))
        IN  IF o.raised
            THEN {Routed("KNOWLEDGE_SEARCH", -1,
                         Raise(o.failed, calls, recent_knowledge_searches))}
            ELSE {Routed("KNOWLEDGE_SEARCH", -1,
                         Return(call_ollama(r), "none",
                                Append(calls, Generate("answer", call_ollama(r))),
                                Remember(recent_knowledge_searches, o))) :
                     r \in TextReplies} :
        o \in SearchRuns(user_message, 3)}

\* the ways the body of chat(user_message) can go
ChatRuns(user_message) ==
    UNION {
        LET intent == detect_user_intent_with_context(r)
            calls == <<Generate("intent", call_ollama(r))>>
        IN  IF intent.raised
            THEN {Routed("none", -1, Raise("generate", calls, recent_knowledge_searches))}
            ELSE IF intent.value = SHOW_CALENDAR THEN ShowCalendar(calls)
            ELSE IF intent.value = CREATE_EMAIL THEN CreateEmail(calls)
            ELSE KnowledgeSearch(calls, user_message) :
        r \in IntentReplies}

\* a chat without its except clause
ChatNoExcept(run) == run

\* lines 549-550: except Exception as e: return f"Sorry, ...: {str(e)}"
ChatExcept(run) ==
    IF run.raised
    THEN [run EXCEPT !.raised = FALSE, !.value = Str(SorryPrefix \o run.value.value)]
    ELSE run

\* a fresh agent; setup_google_services connected both services, only the
\* calendar (the build of the second raised) or none; the embedding model
\* gives every text the same vector
ChatInit ==
    /\ rows = <<>>
    /\ vector_index = None
    /\ document_chunks = <<>>
    /\ recent_knowledge_searches = <<>>
    /\ embedding = [t \in ChatTexts |-> [dir |-> "x", len |-> 1]]
    /\ last = Outcome("init", FALSE)
    /\ calendar_service \in {None, Connected("calendar")}
    /\ gmail_service \in {None, Connected("gmail")}
    /\ gmail_service # None => calendar_service # None
    /\ trace = <<>>
    /\ searched = <<>>
    /\ pc = "idle"
    /\ ChunkIdle
    /\ CallIdle

\* chat(user_message), as the application calls it: without a history
chat ==
    \E user_message \in Queries :
        \E c \in ChatRuns(user_message) :
            LET run == ChatExcept(c.run)
            IN  /\ Len(searched) < MaxSearches
                /\ ret' = [raised |-> run.raised, value |-> run.value]
                /\ trace' = run.calls
                /\ searched' = searched \o Found(run.calls)
                /\ recent_knowledge_searches' = run.recent
                /\ last' = [op |-> "chat", raised |-> run.raised, failed |-> run.failed,
                            intent |-> c.intent, message |-> user_message,
                            days |-> c.days]
                /\ UNCHANGED <<rows, vector_index, document_chunks, embedding>>
                /\ UNCHANGED <<calendar_service, gmail_service>>
                /\ UNCHANGED <<chunkVars, reply, chat_history, max_exchanges>>

\* add_document for the documents of the chat specification
add_chat_document == AddDocument(ChatContents, MaxChatRows)

ChatNext ==
    \/ add_chat_document
    \/ chat

ChatSpec == ChatInit /\ [][ChatNext]_vars

\* whether s begins with t
StartsWith(s, t) == Len(s) >= Len(t) /\ SubSeq(s, 1, Len(t)) = t

\* whether a is an initial part of b
IsPrefix(a, b) == Len(a) <= Len(b) /\ a = SubSeq(b, 1, Len(a))

\* what the i-th call of the trace is: the prompt of a generation call, or
\* "search", "calendar", "gmail"
CallKind(i) == IF trace[i].call = "generate" THEN trace[i].prompt ELSE trace[i].call

CallKinds == [i \in 1..Len(trace) |-> CallKind(i)]

\* C12: chat never raises: whichever of the generation service, the embedding
\* model, the calendar, the mail service and the store fails during the call,
\* chat returns a string (the answers of the generation service being
\* failures or JSON answers whose "response" is a string).
C12_ChatReturnsString ==
    last.op = "chat" =>
        /\ ~ret.raised
        /\ (\A i \in 1..Len(trace) : trace[i].call = "generate" => trace[i].type = "str")
               => ret.value.type = "str"

\* a chat call in which the embedding model raised during the search and
\* that returned the apology
C12_Witness ==
    /\ last.op = "chat"
    /\ last.failed = "encode"
    /\ last.intent = "KNOWLEDGE_SEARCH"
    /\ ~ret.raised
    /\ ret.value.type = "str"
    /\ StartsWith(ret.value.value, SorryPrefix)

C20_OneBranchInOrder ==
    last.op = "chat" =>
        LET n == Len(trace)
            completed == last.failed = "none"
        IN  /\ n >= 1
            /\ CallKind(1) = "intent"
            /\ \A i \in 2..n : CallKind(i) # "intent"
            /\ last.intent = "none" => n = 1
            /\ last.intent = "SHOW_CALENDAR" =>
                   /\ IsPrefix(CallKinds, <<"intent", "time", "calendar", "search">>)
                   /\ (completed /\ calendar_service # None) => n >= 3
                   /\ n >= 3 => trace[3].days = last.days
            /\ last.intent = "CREATE_EMAIL" =>
                   /\ IsPrefix(CallKinds,
                               <<"intent", "email_context", "search", "draft", "gmail">>)
                   /\ (completed /\ gmail_service # None) => n = 5
                   /\ n >= 3 => trace[3].top_k = 2
            /\ last.intent = "KNOWLEDGE_SEARCH" =>
                   /\ IsPrefix(CallKinds, <<"intent", "search", "answer">>)
                   /\ completed => n = 3
                   /\ n >= 2 => trace[2].query = last.message
            /\ \A i \in 1..n :
                   /\ CallKind(i) = "gmail" => last.intent = "CREATE_EMAIL"
                   /\ CallKind(i) = "calendar" => last.intent = "SHOW_CALENDAR"

\* a CREATE_EMAIL call that ran to the created draft
C20_Witness ==
    /\ last.op = "chat"
    /\ last.intent = "CREATE_EMAIL"
    /\ last.failed = "none"
    /\ CallKinds = <<"intent", "email_context", "search", "draft", "gmail">>
    /\ StartsWith(ret.value.value, DraftCreated)

(***************************************************************************)
(* The list of recent searches over a long run of searches.  Every search   *)
(* goes through search_knowledge_base, the only place that touches the      *)
(* list: chat calls it with the message and top_k = 3, the calendar and the *)
(* draft orchestrators with their query and top_k = 2.                      *)
(***************************************************************************)

MaxRecentSearches == 6

\* the default of search_knowledge_base for top_k, which chat uses
DefaultTopK == 3

\* the top_k the calendar and the draft orchestrators pass
ProactiveTopK == 2

\* an agent constructed on a store that is empty or holds one document; the
\* embedding model gives every text the same vector
RecentInit ==
    /\ embedding = [t \in EmbedTexts |-> [dir |-> "x", len |-> 1]]
    /\ \E contents \in {<<>>, <<<<"a">>>>} :
           LET built == BuildVectorIndex(TableOf(contents), None, <<>>, "none")
           IN  /\ rows = TableOf(contents)
               /\ vector_index = built.index
               /\ document_chunks = built.chunks
    /\ recent_knowledge_searches = <<>>
    /\ last = Outcome("init", FALSE)
    /\ pc = "idle"
    /\ ChunkIdle
    /\ CallIdle
    /\ ChatIdle

\* the search chat issues for the message "a"
chat_search == Search({<<"a">>}, {DefaultTopK}, MaxRecentSearches)

\* the search an orchestrator issues for the query "b"
proactive_search == Search({<<"b">>}, {ProactiveTopK}, MaxRecentSearches)

RecentNext ==
    \/ chat_search
    \/ proactive_search

RecentSpec == RecentInit /\ [][RecentNext]_vars

\* C21: after any sequence of searches the list holds at most 5 entries, and
\* they are exactly the most recent searches that produced a result, oldest
\* first; a search that raises, produces no result or meets the empty
\* knowledge base leaves the list unchanged
C21_RecentSearches ==
    /\ [](/\ Len(recent_knowledge_searches) <= 5
          /\ Len(recent_knowledge_searches) = Min(Len(searched), 5)
          /\ \A i \in 1..Len(recent_knowledge_searches) :
                 recent_knowledge_searches[i] =
                     searched[Len(searched) - Len(recent_knowledge_searches) + i])
    /\ [][last'.raised \/ last'.results = <<>>
              => recent_knowledge_searches' = recent_knowledge_searches]_vars

\* six searches produced a result: the list holds the last five, the first
\* one, which differs from the second, is gone
C21_Witness ==
    /\ Len(searched) = 6
    /\ Len(recent_knowledge_searches) = 5
    /\ searched[1] # searched[2]
    /\ recent_knowledge_searches[1] = searched[2]
    /\ recent_knowledge_searches[5] = searched[6]

====
